---- MODULE Spec2Model ----
(***************************************************************************)
(* Model of the per-worker WebDriver registry (core/driver_manager.py):    *)
(* the class-level dictionaries _drivers and _browser_configs, the global  *)
(* lock _lock, and the classmethods that threads call on DriverManager.    *)
(* Every thread executes its current call one interpreter step at a time,  *)
(* so the sections that run without the lock interleave with the others.   *)
(***************************************************************************)
EXTENDS Integers, Sequences, FiniteSets, TLC

(* ---------------------------------------------------------------------- *)
(* Bounds of the model                                                     *)
(* ---------------------------------------------------------------------- *)
NumThreads == 2
MaxSessions == 3
MaxCalls == 3

Threads == 1..NumThreads

(* ---------------------------------------------------------------------- *)
(* Values                                                                  *)
(* ---------------------------------------------------------------------- *)
None == "None"
DEFAULT_DEVICE == "iPhone SE"
CHROME == "chrome"
default_browser == CHROME
default_device == DEFAULT_DEVICE
browser_factories == {CHROME}

WorkerIdArgs == {None, "w1"}
DeviceArgs == {None, "Pixel 5"}
BrowserArgs == {None, CHROME}
XdistEnv == {None, "gw0"}
NoKey == <<>>
NoExc == <<>>
NoRet == [op |-> None, worker_key |-> <<>>, kind |-> "none", value |-> None]
NoGet == [handle |-> 0, invoked |-> 0, gets |-> 0]

AllKeys ==
  {<<"worker", w>> : w \in WorkerIdArgs \ {None, ""}}
    \cup {<<"xdist", x>> : x \in XdistEnv \ {None}}
    \cup {<<"thread", t>> : t \in Threads}

(* Python's  x or d : a None or empty value yields the default.            *)
PyOr(x, d) == IF x \in {None, ""} THEN d ELSE x

(* ---------------------------------------------------------------------- *)
(* Python dict, insertion ordered: a sequence of <<key, value>> pairs      *)
(* ---------------------------------------------------------------------- *)
DictHas(d, k) == \E i \in 1..Len(d) : d[i][1] = k
DictGet(d, k) == d[CHOOSE i \in 1..Len(d) : d[i][1] = k][2]
DictSet(d, k, v) ==
  IF DictHas(d, k)
  THEN [i \in 1..Len(d) |-> IF d[i][1] = k THEN <<k, v>> ELSE d[i]]
  ELSE Append(d, <<k, v>>)
DictPopTest(e, k) == e[1] # k
DictPop(d, k) == SelectSeq(d, LAMBDA e : DictPopTest(e, k))
DictKeys(d) == [i \in 1..Len(d) |-> d[i][1]]
DictKeySet(d) == {d[i][1] : i \in 1..Len(d)}
DictValues(d) == {d[i][2] : i \in 1..Len(d)}

VARIABLES
  drivers,          \* DriverManager._drivers: worker key -> session handle
  browser_configs,  \* DriverManager._browser_configs: worker key -> record
  lock,             \* DriverManager._lock: 0 when free, else the holder
  sessions,         \* every browser session constructed so far, handle = index
  xdist,            \* os.environ["PYTEST_XDIST_WORKER"], None when unset
  th,               \* per thread: position and locals of its current call
  calls,            \* number of DriverManager calls started so far
  result,           \* what the step just taken handed back to a caller,
                    \* NoRet when the step ended no call
  last_get,         \* history: per key, the latest get_mobile_driver return
                    \* that no quit_driver/quit_all_drivers step has followed
  lanes,            \* worker key resolution: the session fixture and the
                    \* keys resolved so far (conftest.py, _get_worker_key)
  page,             \* BasePage: position and locals of the current call
  dom,              \* the page shown by the browser: locators that match
  page_result       \* what the BasePage step just taken handed back

vars == <<drivers, browser_configs, lock, sessions, xdist, th, calls, result,
          last_get, lanes, page, dom, page_result>>

(* The variables of the driver registry, of key resolution and of BasePage. *)
registry_vars == <<drivers, browser_configs, lock, sessions, th, result, last_get>>
lane_vars == <<lanes>>
page_vars == <<page, dom, page_result>>

(* ---------------------------------------------------------------------- *)
(* _get_worker_key                                                         *)
(* ---------------------------------------------------------------------- *)
get_worker_key(t, worker_id) ==
  IF worker_id \notin {None, ""} THEN <<"worker", worker_id>>
  ELSE IF xdist # None THEN <<"xdist", xdist>>
  ELSE <<"thread", t>>

(* ---------------------------------------------------------------------- *)
(* Worker key resolution: values                                           *)
(* ---------------------------------------------------------------------- *)
(* Worker-id arguments of the resolution calls: absent, empty, and ids     *)
(* that also occur as runner worker id ("gw0") and as thread ident ("1").  *)
KeyIdArgs == {None, "", "w1", "gw0", "1"}

NoText == <<>>
NoLast ==
  [thread |-> 0, worker_id |-> None, path |-> None, text |-> NoText,
   repeated |-> FALSE]

(* started: the session fixture has run; first: the first key resolved    *)
(* per thread and argument, as <<thread, argument, text>>; last: the       *)
(* latest resolution, repeated when the same thread had passed the same    *)
(* argument before; fixture: the outcomes of the setup of the driver       *)
(* fixture, as <<thread, outcome>>.                                        *)
NoLanes == [started |-> FALSE, first |-> {}, last |-> NoLast, fixture |-> {}]

FirstText(t, worker_id) ==
  {x[3] : x \in {y \in lanes.first : y[1] = t /\ y[2] = worker_id}}

(* ---------------------------------------------------------------------- *)
(* BasePage: values                                                        *)
(* ---------------------------------------------------------------------- *)
MaxLocators == 2
(* Seconds between two evaluations of a wait condition.                    *)
PollInterval == 10
EXPLICIT_WAIT == 20

Locators == {"A", "B"}
LocatorSets == UNION {[1..n -> Locators] : n \in 0..MaxLocators}
(* The locator argument: one locator tuple, or a list of locator tuples.   *)
LocatorArgs ==
  {[tuple |-> TRUE, one |-> l, list |-> <<>>] : l \in Locators}
    \cup {[tuple |-> FALSE, one |-> None, list |-> s] : s \in LocatorSets}
(* The timeout argument, in seconds, as a sequence: <<>> when the caller   *)
(* leaves it out.                                                          *)
TimeoutArgs == {<<>>, <<0>>, <<10>>}
(* The default of the timeout parameter (timeout: int = 5).                *)
DEFAULT_TIMEOUT == 5
(* The page: per locator the number of elements it matches now, the        *)
(* locators whose first match is displayed (visible), those whose first    *)
(* match is displayed and enabled (clickable), and those whose first match *)
(* shows the text a caller waits for.                                      *)
Matches == {0, 1, 2}
Doms ==
  {d \in [present : [Locators -> Matches], visible : SUBSET Locators,
          clickable : SUBSET Locators, text : SUBSET Locators] :
     /\ \A l \in d.visible : d.present[l] > 0
     /\ d.clickable \subseteq d.visible
     /\ d.text \subseteq d.visible}
NoDom ==
  [present |-> [l \in Locators |-> 0], visible |-> {}, clickable |-> {},
   text |-> {}]
Elem(l, n) == <<l, n>>
AllElems(d, l) == [n \in 1..d.present[l] |-> Elem(l, n)]

(* Frame of a BasePage call.  locators, wait_time, i and element are the   *)
(* locals of the method.  The rest is history of the call: polls[j] and    *)
(* slept[j] count the evaluations of locator j and the poll intervals      *)
(* slept on it, matched[j] tells whether an evaluation of locator j was    *)
(* true, clicks lists the elements clicked, touched tells whether the      *)
(* browser session was used, never and always are the locators whose wait  *)
(* condition was false, respectively true, at every instant since the      *)
(* call started, since is the number of DriverManager calls started before *)
(* the call.                                                               *)
IdlePage ==
  [pc |-> "idle", op |-> None, locators |-> <<>>, timeout |-> <<>>,
   wait_time |-> 0, i |-> 0, element |-> <<>>,
   polls |-> <<>>, slept |-> <<>>, matched |-> <<>>, clicks |-> <<>>,
   touched |-> FALSE, never |-> {}, always |-> {}, since |-> 0]

NoPageRet == [kind |-> "none", value |-> <<>>, call |-> <<>>]

(* Frame of a call.  worker_id and device are the arguments as passed (the *)
(* browser argument is only read to compute browser_type); worker_key,     *)
(* device_name, browser_type, handle, worker_keys and exc are the locals   *)
(* of the method.                                                          *)
(* seen and invoked are history only: the handle stored under worker_key   *)
(* when the membership test ran, and the number of factory invocations of  *)
(* the call.                                                               *)
IdleFrame ==
  [pc |-> "idle", op |-> None, worker_id |-> None, device |-> None,
   worker_key |-> NoKey, device_name |-> None,
   browser_type |-> None, handle |-> 0, worker_keys |-> <<>>, exc |-> NoExc,
   quit_raised |-> FALSE, seen |-> 0, invoked |-> 0]

Init ==
  /\ drivers = <<>>
  /\ browser_configs = <<>>
  /\ lock = 0
  /\ sessions = <<>>
  /\ xdist \in XdistEnv
  /\ th = [t \in Threads |-> IdleFrame]
  /\ calls = 0
  /\ result = NoRet
  /\ last_get = [k \in AllKeys |-> NoGet]
  /\ lanes = NoLanes
  /\ page = IdlePage
  /\ dom = NoDom
  /\ page_result = NoPageRet

Live(h) == sessions[h].quits = 0
LiveFor(k) == {h \in 1..Len(sessions) : sessions[h].key = k /\ Live(h)}

(* Start of a call: the frame of the previous call is discarded.           *)
Enter(t, op, pc, worker_id, device, browser) ==
  th' = [th EXCEPT ![t] = [IdleFrame EXCEPT
           !.pc = pc, !.op = op,
           !.worker_id = worker_id, !.device = device,
           !.worker_key = IF op = "quit_all_drivers" THEN NoKey
                          ELSE get_worker_key(t, worker_id),
           !.device_name = IF op = "get_mobile_driver"
                           THEN PyOr(device, default_device) ELSE None,
           !.browser_type = IF op = "get_mobile_driver"
                            THEN PyOr(browser, default_browser) ELSE None]]

(* End of a call: back to the caller, the outcome is recorded in result.   *)
Leave(t, kind, value) ==
  /\ th' = [th EXCEPT ![t] = IdleFrame]
  /\ result' = [op |-> th[t].op,
                worker_key |-> IF th[t].op = "quit_all_drivers" THEN NoKey
                               ELSE th[t].worker_key,
                kind |-> kind, value |-> value]

Goto(t, pc) == th' = [th EXCEPT ![t].pc = pc] /\ result' = NoRet

StartCall(t) ==
  /\ th[t].pc = "idle"
  /\ calls < MaxCalls
  /\ calls' = calls + 1

(* History bookkeeping: a step of quit_driver(k) ends the reuse window of  *)
(* k, a step of quit_all_drivers ends every window.                        *)
LastGetAfter(t) ==
  IF th[t].op = "quit_driver"
  THEN [last_get EXCEPT ![th[t].worker_key] = NoGet]
  ELSE IF th[t].op = "quit_all_drivers"
       THEN [k \in AllKeys |-> NoGet]
       ELSE last_get

(* ---------------------------------------------------------------------- *)
(* get_mobile_driver                                                       *)
(* ---------------------------------------------------------------------- *)
(* The prologue resolves the arguments without touching shared state, so   *)
(* the call starts at the point where  with cls._lock  is entered.         *)
get_mobile_driver_call(t) ==
  /\ StartCall(t)
  /\ lock = 0
  /\ lock' = t
  /\ \E worker_id \in WorkerIdArgs, device \in DeviceArgs, browser \in BrowserArgs :
       Enter(t, "get_mobile_driver", "gmd_check", worker_id, device, browser)
  /\ result' = NoRet
  /\ UNCHANGED <<drivers, browser_configs, sessions, xdist, last_get>>
  /\ UNCHANGED <<lane_vars, page_vars>>

StoredHandle(k) == IF DictHas(drivers, k) THEN DictGet(drivers, k) ELSE 0

(* Variant without the membership test: a session is constructed on every  *)
(* call.                                                                   *)
get_mobile_driver_check_no_reuse(t) ==
  /\ th[t].pc = "gmd_check"
  /\ th' = [th EXCEPT ![t].pc = "gmd_config",
                      ![t].seen = StoredHandle(th[t].worker_key)]
  /\ result' = NoRet
  /\ UNCHANGED <<drivers, browser_configs, lock, sessions, xdist, calls, last_get>>
  /\ UNCHANGED <<lane_vars, page_vars>>

get_mobile_driver_check(t) ==
  /\ th[t].pc = "gmd_check"
  /\ IF ~DictHas(drivers, th[t].worker_key)
     THEN th' = [th EXCEPT ![t].pc = "gmd_config", ![t].seen = 0]
     ELSE th' = [th EXCEPT ![t].pc = "gmd_return",
                           ![t].seen = StoredHandle(th[t].worker_key)]
  /\ result' = NoRet
  /\ UNCHANGED <<drivers, browser_configs, lock, sessions, xdist, calls, last_get>>
  /\ UNCHANGED <<lane_vars, page_vars>>

BrowserConfig(t) ==
  [browser |-> th[t].browser_type, device |-> th[t].device_name, mobile |-> TRUE]

get_mobile_driver_config(t) ==
  /\ th[t].pc = "gmd_config"
  /\ browser_configs' = DictSet(browser_configs, th[t].worker_key, BrowserConfig(t))
  /\ Goto(t, "gmd_create")
  /\ UNCHANGED <<drivers, lock, sessions, xdist, calls, last_get>>
  /\ UNCHANGED <<lane_vars, page_vars>>

(* _get_browser_factory: the lookup fails for a browser type that has no   *)
(* registered factory.                                                     *)
get_browser_factory_ok(browser_type) == browser_type \in browser_factories

NewSession(k) == [key |-> k, quits |-> 0]

(* factory.create_mobile_driver: webdriver.Chrome(...) may raise before a  *)
(* browser exists, or the timeout configuration that follows may raise     *)
(* once the browser is running; both are wrapped in a DriverException.     *)
create_mobile_driver(t) ==
  \/ /\ Len(sessions) < MaxSessions
     /\ sessions' = Append(sessions, NewSession(th[t].worker_key))
     /\ th' = [th EXCEPT ![t].pc = "gmd_store", ![t].invoked = @ + 1,
                         ![t].handle = Len(sessions) + 1]
  \/ /\ UNCHANGED sessions
     /\ th' = [th EXCEPT ![t].pc = "cw_check", ![t].invoked = @ + 1,
                         ![t].exc = <<"DriverException", th[t].device_name, "launch failed">>]
  \/ /\ Len(sessions) < MaxSessions
     /\ sessions' = Append(sessions, NewSession(th[t].worker_key))
     /\ th' = [th EXCEPT ![t].pc = "cw_check", ![t].invoked = @ + 1,
                         ![t].exc = <<"DriverException", th[t].device_name, "timeout setup failed">>]

(* An exception inside the try block is caught: the handler starts with    *)
(* _cleanup_worker(worker_key).                                            *)
get_mobile_driver_create(t) ==
  /\ th[t].pc = "gmd_create"
  /\ IF ~get_browser_factory_ok(th[t].browser_type)
     THEN /\ th' = [th EXCEPT ![t].pc = "cw_check",
                              ![t].exc = <<"DriverException", "unsupported browser", th[t].browser_type>>]
          /\ UNCHANGED sessions
     ELSE create_mobile_driver(t)
  /\ result' = NoRet
  /\ UNCHANGED <<drivers, browser_configs, lock, xdist, calls, last_get>>
  /\ UNCHANGED <<lane_vars, page_vars>>

get_mobile_driver_store(t) ==
  /\ th[t].pc = "gmd_store"
  /\ drivers' = DictSet(drivers, th[t].worker_key, th[t].handle)
  /\ Goto(t, "gmd_return")
  /\ UNCHANGED <<browser_configs, lock, sessions, xdist, calls, last_get>>
  /\ UNCHANGED <<lane_vars, page_vars>>

(* return cls._drivers[worker_key]: the lookup raises KeyError when the    *)
(* key has been removed meanwhile; leaving the with block frees the lock.  *)
get_mobile_driver_return(t) ==
  /\ th[t].pc = "gmd_return"
  /\ IF DictHas(drivers, th[t].worker_key)
     THEN /\ Leave(t, "return", DictGet(drivers, th[t].worker_key))
          /\ lock' = 0
          /\ last_get' = [last_get EXCEPT ![th[t].worker_key] =
                            [handle |-> DictGet(drivers, th[t].worker_key),
                             invoked |-> th[t].invoked,
                             gets |-> IF @.gets = 0 THEN 1 ELSE 2]]
     ELSE /\ th' = [th EXCEPT ![t].pc = "cw_check",
                              ![t].exc = <<"KeyError", th[t].worker_key>>]
          /\ result' = NoRet
          /\ UNCHANGED <<lock, last_get>>
  /\ UNCHANGED <<drivers, browser_configs, sessions, xdist, calls>>
  /\ UNCHANGED <<lane_vars, page_vars>>

(* Variant that reports the device argument as passed instead of the       *)
(* resolved device name.                                                   *)
DriverExceptionDetails_raw(t) ==
  [worker_id |-> th[t].worker_key, browser |-> th[t].browser_type,
   device |-> th[t].device, error |-> th[t].exc]

DriverExceptionDetails(t) ==
  [worker_id |-> th[t].worker_key, browser |-> th[t].browser_type,
   device |-> th[t].device_name, error |-> th[t].exc]

(* Variant in which the DriverException leaves the lock held.              *)
get_mobile_driver_raise_keeps_lock(t) ==
  /\ th[t].pc = "gmd_raise"
  /\ Leave(t, "DriverException", DriverExceptionDetails(t))
  /\ last_get' = [last_get EXCEPT ![th[t].worker_key] = NoGet]
  /\ UNCHANGED <<drivers, browser_configs, lock, sessions, xdist, calls>>
  /\ UNCHANGED <<lane_vars, page_vars>>

get_mobile_driver_raise(t) ==
  /\ th[t].pc = "gmd_raise"
  /\ Leave(t, "DriverException", DriverExceptionDetails(t))
  /\ lock' = 0
  /\ last_get' = [last_get EXCEPT ![th[t].worker_key] = NoGet]
  /\ UNCHANGED <<drivers, browser_configs, sessions, xdist, calls>>
  /\ UNCHANGED <<lane_vars, page_vars>>

(* ---------------------------------------------------------------------- *)
(* _cleanup_worker, run by quit_driver, quit_all_drivers and the failure   *)
(* path of get_mobile_driver                                               *)
(* ---------------------------------------------------------------------- *)
cleanup_worker_done(t) ==
  CASE th[t].op = "quit_driver" -> Leave(t, "return", None)
    [] th[t].op = "quit_all_drivers" -> Goto(t, "qad_loop")
    [] OTHER -> Goto(t, "gmd_raise")

(* Variant without the membership test: the try block always runs.        *)
cleanup_worker_check_no_test(t) ==
  /\ th[t].pc = "cw_check"
  /\ Goto(t, "cw_lookup")
  /\ last_get' = LastGetAfter(t)
  /\ UNCHANGED <<drivers, browser_configs, lock, sessions, xdist, calls>>
  /\ UNCHANGED <<lane_vars, page_vars>>

cleanup_worker_check(t) ==
  /\ th[t].pc = "cw_check"
  /\ IF DictHas(drivers, th[t].worker_key)
     THEN /\ th' = [th EXCEPT ![t].pc = "cw_lookup",
                              ![t].seen = StoredHandle(th[t].worker_key)]
          /\ result' = NoRet
     ELSE cleanup_worker_done(t)
  /\ last_get' = LastGetAfter(t)
  /\ UNCHANGED <<drivers, browser_configs, lock, sessions, xdist, calls>>
  /\ UNCHANGED <<lane_vars, page_vars>>

(* cls._drivers[worker_key] inside the try: a KeyError is caught by the    *)
(* except clause and the finally clause still runs.                        *)
cleanup_worker_lookup(t) ==
  /\ th[t].pc = "cw_lookup"
  /\ IF DictHas(drivers, th[t].worker_key)
     THEN th' = [th EXCEPT ![t].pc = "cw_quit",
                           ![t].handle = DictGet(drivers, th[t].worker_key)]
     ELSE th' = [th EXCEPT ![t].pc = "cw_pop_driver", ![t].handle = 0]
  /\ last_get' = LastGetAfter(t)
  /\ result' = NoRet
  /\ UNCHANGED <<drivers, browser_configs, lock, sessions, xdist, calls>>
  /\ UNCHANGED <<lane_vars, page_vars>>

(* .quit() on the session: it returns or raises; either way the finally    *)
(* clause follows.                                                         *)
cleanup_worker_quit(t) ==
  /\ th[t].pc = "cw_quit"
  /\ sessions' = [sessions EXCEPT ![th[t].handle].quits = @ + 1]
  /\ \E raised \in BOOLEAN :
       th' = [th EXCEPT ![t].pc = "cw_pop_driver",
                        ![t].quit_raised = @ \/ raised]
  /\ last_get' = LastGetAfter(t)
  /\ result' = NoRet
  /\ UNCHANGED <<drivers, browser_configs, lock, xdist, calls>>
  /\ UNCHANGED <<lane_vars, page_vars>>

cleanup_worker_pop_driver(t) ==
  /\ th[t].pc = "cw_pop_driver"
  /\ drivers' = DictPop(drivers, th[t].worker_key)
  /\ Goto(t, "cw_pop_config")
  /\ last_get' = LastGetAfter(t)
  /\ UNCHANGED <<browser_configs, lock, sessions, xdist, calls>>
  /\ UNCHANGED <<lane_vars, page_vars>>

(* Variant that clears the whole configuration map instead of popping one  *)
(* key.                                                                    *)
cleanup_worker_pop_config_clear(t) ==
  /\ th[t].pc = "cw_pop_config"
  /\ browser_configs' = <<>>
  /\ cleanup_worker_done(t)
  /\ last_get' = LastGetAfter(t)
  /\ UNCHANGED <<drivers, lock, sessions, xdist, calls>>
  /\ UNCHANGED <<lane_vars, page_vars>>

cleanup_worker_pop_config(t) ==
  /\ th[t].pc = "cw_pop_config"
  /\ browser_configs' = DictPop(browser_configs, th[t].worker_key)
  /\ cleanup_worker_done(t)
  /\ last_get' = LastGetAfter(t)
  /\ UNCHANGED <<drivers, lock, sessions, xdist, calls>>
  /\ UNCHANGED <<lane_vars, page_vars>>

(* ---------------------------------------------------------------------- *)
(* quit_driver                                                             *)
(* ---------------------------------------------------------------------- *)
quit_driver_call(t) ==
  /\ StartCall(t)
  /\ \E worker_id \in WorkerIdArgs :
       /\ Enter(t, "quit_driver", "cw_check", worker_id, None, None)
       /\ last_get' = [last_get EXCEPT ![get_worker_key(t, worker_id)] = NoGet]
  /\ result' = NoRet
  /\ UNCHANGED <<drivers, browser_configs, lock, sessions, xdist>>
  /\ UNCHANGED <<lane_vars, page_vars>>

(* ---------------------------------------------------------------------- *)
(* quit_all_drivers                                                        *)
(* ---------------------------------------------------------------------- *)
(* with cls._lock: worker_keys = list(cls._drivers.keys())                 *)
quit_all_drivers_call(t) ==
  /\ StartCall(t)
  /\ lock = 0
  /\ lock' = t
  /\ th' = [th EXCEPT ![t] = [IdleFrame EXCEPT
               !.pc = "qad_loop", !.op = "quit_all_drivers",
               !.worker_keys = DictKeys(drivers)]]
  /\ last_get' = [k \in AllKeys |-> NoGet]
  /\ result' = NoRet
  /\ UNCHANGED <<drivers, browser_configs, sessions, xdist>>
  /\ UNCHANGED <<lane_vars, page_vars>>

quit_all_drivers_loop(t) ==
  /\ th[t].pc = "qad_loop"
  /\ IF th[t].worker_keys # <<>>
     THEN /\ th' = [th EXCEPT ![t].pc = "cw_check",
                              ![t].worker_key = Head(th[t].worker_keys),
                              ![t].worker_keys = Tail(th[t].worker_keys)]
          /\ result' = NoRet
          /\ UNCHANGED lock
     ELSE /\ Leave(t, "return", None)
          /\ lock' = 0
  /\ last_get' = LastGetAfter(t)
  /\ UNCHANGED <<drivers, browser_configs, sessions, xdist, calls>>
  /\ UNCHANGED <<lane_vars, page_vars>>

(* ---------------------------------------------------------------------- *)
(* Read-only lookups                                                       *)
(* ---------------------------------------------------------------------- *)
ConfigField(k, field) ==
  IF DictHas(browser_configs, k) THEN DictGet(browser_configs, k)[field] ELSE None

current_device(k) == ConfigField(k, "device")
current_browser(k) == ConfigField(k, "browser")

Lookup(t, op, worker_id, value) ==
  /\ th' = [th EXCEPT ![t] = IdleFrame]
  /\ result' = [op |-> op, worker_key |-> get_worker_key(t, worker_id),
                kind |-> "return", value |-> value]

get_current_device(t) ==
  /\ StartCall(t)
  /\ \E worker_id \in WorkerIdArgs :
       Lookup(t, "get_current_device", worker_id,
              current_device(get_worker_key(t, worker_id)))
  /\ UNCHANGED <<drivers, browser_configs, lock, sessions, xdist, last_get>>
  /\ UNCHANGED <<lane_vars, page_vars>>

get_current_browser(t) ==
  /\ StartCall(t)
  /\ \E worker_id \in WorkerIdArgs :
       Lookup(t, "get_current_browser", worker_id,
              current_browser(get_worker_key(t, worker_id)))
  /\ UNCHANGED <<drivers, browser_configs, lock, sessions, xdist, last_get>>
  /\ UNCHANGED <<lane_vars, page_vars>>

get_active_workers_call(t) ==
  /\ StartCall(t)
  /\ Enter(t, "get_active_workers", "gaw_lock", None, None, None)
  /\ result' = NoRet
  /\ UNCHANGED <<drivers, browser_configs, lock, sessions, xdist, last_get>>
  /\ UNCHANGED <<lane_vars, page_vars>>

(* with cls._lock: return cls._browser_configs.copy()                      *)
get_active_workers_copy(t) ==
  /\ th[t].pc = "gaw_lock"
  /\ lock = 0
  /\ Leave(t, "return", browser_configs)
  /\ UNCHANGED <<drivers, browser_configs, lock, sessions, xdist, calls, last_get>>
  /\ UNCHANGED <<lane_vars, page_vars>>

(* ---------------------------------------------------------------------- *)
Next ==
  \/ \E t \in Threads : get_mobile_driver_call(t)
  \/ \E t \in Threads : get_mobile_driver_check(t)
  \/ \E t \in Threads : get_mobile_driver_config(t)
  \/ \E t \in Threads : get_mobile_driver_create(t)
  \/ \E t \in Threads : get_mobile_driver_store(t)
  \/ \E t \in Threads : get_mobile_driver_return(t)
  \/ \E t \in Threads : get_mobile_driver_raise(t)
  \/ \E t \in Threads : cleanup_worker_check(t)
  \/ \E t \in Threads : cleanup_worker_lookup(t)
  \/ \E t \in Threads : cleanup_worker_quit(t)
  \/ \E t \in Threads : cleanup_worker_pop_driver(t)
  \/ \E t \in Threads : cleanup_worker_pop_config(t)
  \/ \E t \in Threads : quit_driver_call(t)
  \/ \E t \in Threads : quit_all_drivers_call(t)
  \/ \E t \in Threads : quit_all_drivers_loop(t)

(* The calls that change the registry.                                     *)
Spec == Init /\ [][Next]_vars

(* The same calls together with the read-only lookups.                     *)
NextLookups ==
  \/ Next
  \/ \E t \in Threads : get_current_device(t)
  \/ \E t \in Threads : get_current_browser(t)
  \/ \E t \in Threads : get_active_workers_call(t)
  \/ \E t \in Threads : get_active_workers_copy(t)

SpecLookups == Init /\ [][NextLookups]_vars

(* The calls that take the lock or run _cleanup_worker, under a scheduler  *)
(* that keeps running some thread that is inside a call and can go on: a   *)
(* thread at a with statement goes on once the lock is free, a             *)
(* construction and a quit() terminate.                                    *)
Continue(t) ==
  \/ get_mobile_driver_check(t)
  \/ get_mobile_driver_config(t)
  \/ get_mobile_driver_create(t)
  \/ get_mobile_driver_store(t)
  \/ get_mobile_driver_return(t)
  \/ get_mobile_driver_raise(t)
  \/ cleanup_worker_check(t)
  \/ cleanup_worker_lookup(t)
  \/ cleanup_worker_quit(t)
  \/ cleanup_worker_pop_driver(t)
  \/ cleanup_worker_pop_config(t)
  \/ quit_all_drivers_loop(t)
  \/ get_active_workers_copy(t)

(* The callers pass no worker id and no device: the keys are those of the  *)
(* threads, or the one key of the runner worker that all threads share.    *)
NoArguments(t) == th'[t].worker_id = None /\ th'[t].device = None

NextLocks ==
  \/ \E t \in Threads : get_mobile_driver_call(t) /\ NoArguments(t)
  \/ \E t \in Threads : quit_driver_call(t) /\ NoArguments(t)
  \/ \E t \in Threads : quit_all_drivers_call(t)
  \/ \E t \in Threads : get_active_workers_call(t)
  \/ \E t \in Threads : Continue(t)

SpecLocks ==
  Init /\ [][NextLocks]_vars /\ WF_vars(\E t \in Threads : Continue(t))

TypeOK ==
  /\ lock \in 0..NumThreads
  /\ Len(sessions) <= MaxSessions
  /\ \A t \in Threads : th[t].handle \in 0..MaxSessions

(* ---------------------------------------------------------------------- *)
(* Worker key resolution (conftest.py parallel_session_setup and           *)
(* DriverManager._get_worker_key)                                          *)
(* ---------------------------------------------------------------------- *)
(* The characters of the ids and thread idents of the model.               *)
StrText(s) ==
  CASE s = "w1" -> <<"w", "1">>
    [] s = "gw0" -> <<"g", "w", "0">>
    [] s = "1" -> <<"1">>
    [] OTHER -> <<>>

IntText(n) == <<(<<"0", "1", "2", "3", "4", "5", "6", "7", "8", "9">>)[n + 1]>>

KeyPrefix(path) ==
  CASE path = "worker" -> <<"w", "o", "r", "k", "e", "r", "_">>
    [] path = "xdist" -> <<"x", "d", "i", "s", "t", "_">>
    [] path = "thread" -> <<"t", "h", "r", "e", "a", "d", "_">>

KeyValueText(k) == IF k[1] = "thread" THEN IntText(k[2]) ELSE StrText(k[2])

(* Variant that returns the id alone, without the prefix of its path.      *)
worker_key_text_no_prefix(k) == KeyValueText(k)

(* The string that _get_worker_key returns: f"worker_{worker_id}",         *)
(* f"xdist_{...}" or f"thread_{thread_id}".                                *)
worker_key_text(k) == KeyPrefix(k[1]) \o KeyValueText(k)

(* Session fixture, autouse: runs once, before the first test.  With a     *)
(* runner worker id in request.config it writes PYTEST_XDIST_WORKER; the   *)
(* runner has normally exported the same id already.                       *)
parallel_session_setup ==
  /\ ~lanes.started
  /\ \E worker_id \in (IF xdist # None THEN {xdist} ELSE XdistEnv) :
       xdist' = IF worker_id \notin {None, ""} THEN worker_id ELSE xdist
  /\ lanes' = [lanes EXCEPT !.started = TRUE]
  /\ UNCHANGED <<registry_vars, calls, page_vars>>

ResolveKey(t, worker_id) ==
  LET k == get_worker_key(t, worker_id)
      text == worker_key_text(k)
  IN lanes' = [lanes EXCEPT
       !.first = IF FirstText(t, worker_id) = {}
                 THEN @ \cup {<<t, worker_id, text>>} ELSE @,
       !.last = [thread |-> t, worker_id |-> worker_id, path |-> k[1],
                 text |-> text,
                 repeated |-> FirstText(t, worker_id) # {}]]

(* Variant in which a test resolves keys before the session fixture ran.   *)
get_worker_key_call_unordered(t) ==
  /\ calls < MaxCalls
  /\ calls' = calls + 1
  /\ \E worker_id \in KeyIdArgs : ResolveKey(t, worker_id)
  /\ UNCHANGED <<registry_vars, xdist, page_vars>>

(* A call of _get_worker_key by a test of thread t.                        *)
get_worker_key_call(t) ==
  /\ lanes.started
  /\ calls < MaxCalls
  /\ calls' = calls + 1
  /\ \E worker_id \in KeyIdArgs : ResolveKey(t, worker_id)
  /\ UNCHANGED <<registry_vars, xdist, page_vars>>

(* The attributes of the class DriverManager that are methods.             *)
DriverManagerMethods ==
  {"get_mobile_driver", "get_desktop_driver", "_get_browser_factory",
   "_get_worker_key", "quit_driver", "quit_all_drivers", "_cleanup_worker",
   "get_current_device", "get_current_browser", "get_active_workers",
   "add_browser_support", "get_supported_browsers"}

(* Setup of the per-test driver fixture, up to its yield: the attribute    *)
(* DriverManager.get_mobile_wire_driver is looked up and called.  A class  *)
(* without that attribute raises AttributeError: the fixture ends before   *)
(* its yield, the test body and the teardown after the yield do not run.   *)
driver_fixture_setup(t) ==
  /\ th[t].pc = "idle"
  /\ lanes' = [lanes EXCEPT !.fixture = @ \cup
       {<<t, IF "get_mobile_wire_driver" \in DriverManagerMethods
             THEN "yield" ELSE "AttributeError">>}]
  /\ result' = NoRet
  /\ UNCHANGED <<drivers, browser_configs, lock, sessions, th, last_get>>
  /\ UNCHANGED <<xdist, calls, page_vars>>

(* The registry calls of the session (hooks and session teardown) together *)
(* with the setups of the driver fixture.                                  *)
NextFixture ==
  \/ Next
  \/ \E t \in Threads : driver_fixture_setup(t)

SpecFixture == Init /\ [][NextFixture]_vars

NextKeys ==
  \/ parallel_session_setup
  \/ \E t \in Threads : get_worker_key_call(t)

SpecKeys == Init /\ [][NextKeys]_vars

(* ---------------------------------------------------------------------- *)
(* BasePage.find_element, find_elements and click_element                  *)
(* ---------------------------------------------------------------------- *)
PageOps == {"find_element", "find_elements", "click_element"}

ProbeOps ==
  {"is_element_present", "is_element_not_present", "is_element_visible",
   "is_element_clickable", "wait_for_text", "wait_for_element_to_disappear"}

(* The wait condition of the method: EC.presence_of_element_located,       *)
(* EC.element_to_be_clickable, EC.visibility_of_element_located,           *)
(* EC.text_to_be_present_in_element or EC.invisibility_of_element_located  *)
(* (true of a locator without a match and of one whose match is hidden).   *)
Cond(op, d, l) ==
  CASE op \in {"click_element", "is_element_clickable"} -> l \in d.clickable
    [] op = "is_element_visible" -> l \in d.visible
    [] op = "wait_for_text" -> l \in d.text
    [] op \in {"is_element_not_present", "wait_for_element_to_disappear"} ->
         l \notin d.visible
    [] OTHER -> d.present[l] > 0

(* The value of the timeout parameter when the caller leaves it out: None  *)
(* for wait_for_text and wait_for_element_to_disappear, 5 for the others.  *)
DefaultTimeout(op) ==
  IF op \in {"wait_for_text", "wait_for_element_to_disappear"}
  THEN <<>>
  ELSE <<DEFAULT_TIMEOUT>>

(* The timeout of the WebDriverWait: the is_element_* probes pass their    *)
(* timeout parameter as it is, the other methods use                       *)
(* timeout or Settings.BROWSER.explicit_wait.                              *)
WaitTime(op, timeout) ==
  LET param == IF timeout = <<>> THEN DefaultTimeout(op) ELSE timeout
  IN IF op \in {"is_element_present", "is_element_not_present",
                "is_element_visible", "is_element_clickable"}
     THEN param[1]
     ELSE IF param = <<>> THEN EXPLICIT_WAIT
          ELSE IF param[1] = 0 THEN EXPLICIT_WAIT ELSE param[1]

(* What a probe returns for an empty locator list.                         *)
EmptyProbe(op) == op = "is_element_not_present"

CondTrue(op, d) == {l \in Locators : Cond(op, d, l)}

(* Variant that drops the timeout from the details of the error.           *)
ElementNotFoundException_no_timeout(locator, message, timeout) ==
  [locator |-> locator, message |-> message, timeout |-> <<>>]

(* ElementNotFoundException(locator, message, timeout): the attributes of  *)
(* the error; <<>> stands for an argument left at None.                    *)
ElementNotFoundException(locator, message, timeout) ==
  [locator |-> locator, message |-> message, timeout |-> timeout]

PageGoto(f) ==
  /\ page' = f
  /\ page_result' = NoPageRet

PageLeave(f, kind, value) ==
  /\ page' = IdlePage
  /\ page_result' = [kind |-> kind, value |-> value, call |-> f]

(* Variant in which an empty set makes find_element and click_element      *)
(* return nothing instead of raising.                                      *)
page_call_empty_returns(op, locator, timeout) ==
  /\ page.pc = "idle"
  /\ page_result.kind = "none"
  /\ LET locators == IF locator.tuple THEN <<locator.one>> ELSE locator.list
         wait_time == WaitTime(op, timeout)
         f == [IdlePage EXCEPT !.op = op, !.locators = locators,
                 !.timeout = timeout, !.since = calls]
     IN IF locators = <<>>
        THEN PageLeave(f, "return", <<>>)
        ELSE PageGoto([f EXCEPT
               !.pc = "wait", !.wait_time = wait_time, !.i = 1,
               !.polls = [j \in 1..Len(locators) |-> 0],
               !.slept = [j \in 1..Len(locators) |-> 0],
               !.matched = [j \in 1..Len(locators) |-> FALSE],
               !.never = Locators \ CondTrue(op, dom),
               !.always = CondTrue(op, dom)])
  /\ UNCHANGED <<registry_vars, xdist, calls, lane_vars, dom>>

(* Entry of the three methods: normalise the argument to a list, handle    *)
(* the empty list, compute wait_time and construct the WebDriverWait.  The *)
(* caller has taken the outcome of its previous call.                      *)
page_call(op, locator, timeout) ==
  /\ page.pc = "idle"
  /\ page_result.kind = "none"
  /\ LET locators == IF locator.tuple THEN <<locator.one>> ELSE locator.list
         wait_time == WaitTime(op, timeout)
         f == [IdlePage EXCEPT !.op = op, !.locators = locators,
                 !.timeout = timeout, !.since = calls]
     IN IF locators = <<>>
        THEN CASE op = "find_element" ->
                    PageLeave(f, "ElementNotFoundException",
                      ElementNotFoundException(<<>>, "No locators provided", <<>>))
               [] op = "find_elements" -> PageLeave(f, "return", <<>>)
               [] op = "click_element" ->
                    PageLeave(f, "ElementNotFoundException",
                      ElementNotFoundException(<<>>,
                        "No locators provided for click operation", <<>>))
               [] OTHER -> PageLeave(f, "return", EmptyProbe(op))
        ELSE PageGoto([f EXCEPT
               !.pc = "wait", !.wait_time = wait_time, !.i = 1,
               !.polls = [j \in 1..Len(locators) |-> 0],
               !.slept = [j \in 1..Len(locators) |-> 0],
               !.matched = [j \in 1..Len(locators) |-> FALSE],
               !.never = Locators \ CondTrue(op, dom),
               !.always = CondTrue(op, dom)])
  /\ UNCHANGED <<registry_vars, xdist, calls, lane_vars, dom>>

(* Variant of the wait that gives up after the first poll interval.        *)
TimedOut_first_poll(slept, wait_time) == slept * PollInterval >= 1

(* WebDriverWait.until sleeps one poll interval after a false evaluation   *)
(* and raises TimeoutException once the time slept exceeds the timeout.    *)
TimedOut(slept, wait_time) == slept * PollInterval >= wait_time

(* Variant of the success branch that takes the match of the last locator  *)
(* of the set.                                                             *)
Found_last_locator(f) ==
  LET loc == f.locators[Len(f.locators)]
  IN CASE f.op = "find_element" -> PageLeave(f, "return", Elem(loc, 1))
       [] f.op = "find_elements" -> PageGoto([f EXCEPT !.pc = "collect"])
       [] f.op = "click_element" ->
            PageGoto([f EXCEPT !.pc = "click", !.element = Elem(loc, 1)])
       [] OTHER -> PageLeave(f, "return", TRUE)

(* The wait of locator f.i succeeded: find_element returns the element,    *)
(* find_elements goes on to list the matches, click_element to click.      *)
Found(f) ==
  LET loc == f.locators[f.i]
  IN CASE f.op = "find_element" -> PageLeave(f, "return", Elem(loc, 1))
       [] f.op = "find_elements" -> PageGoto([f EXCEPT !.pc = "collect"])
       [] f.op = "click_element" ->
            PageGoto([f EXCEPT !.pc = "click", !.element = Elem(loc, 1)])
       [] OTHER -> PageLeave(f, "return", TRUE)

(* Variant in which a probe raises after its last locator, as the finders  *)
(* do.                                                                     *)
NextLocator_probe_raises(f) ==
  IF f.i < Len(f.locators)
  THEN PageGoto([f EXCEPT !.pc = "wait", !.i = @ + 1, !.element = <<>>])
  ELSE IF f.op = "find_elements" THEN PageLeave(f, "return", <<>>)
       ELSE PageLeave(f, "ElementNotFoundException",
              ElementNotFoundException(f.locators, <<>>, <<f.wait_time>>))

(* except TimeoutException: continue with the next locator; after the last *)
(* one find_element and click_element raise, find_elements returns [] and  *)
(* the probes return False.                                                *)
NextLocator(f) ==
  IF f.i < Len(f.locators)
  THEN PageGoto([f EXCEPT !.pc = "wait", !.i = @ + 1, !.element = <<>>])
  ELSE CASE f.op = "find_element" ->
              PageLeave(f, "ElementNotFoundException",
                ElementNotFoundException(f.locators, <<>>, <<f.wait_time>>))
         [] f.op = "find_elements" -> PageLeave(f, "return", <<>>)
         [] f.op = "click_element" ->
              PageLeave(f, "ElementNotFoundException",
                ElementNotFoundException(f.locators,
                  "Clickable element not found", <<f.wait_time>>))
         [] OTHER -> PageLeave(f, "return", FALSE)

(* One round of wait.until on locator page.i: evaluate the condition on    *)
(* the page; when false, sleep one poll interval and time out or go on.    *)
wait_until_poll ==
  /\ page.pc = "wait"
  /\ LET i == page.i
         hit == Cond(page.op, dom, page.locators[i])
         f == [page EXCEPT !.touched = TRUE, !.polls[i] = @ + 1,
                 !.matched[i] = hit]
         g == [f EXCEPT !.slept[i] = @ + 1]
     IN IF hit THEN Found(f)
        ELSE IF TimedOut(g.slept[i], g.wait_time) THEN NextLocator(g)
        ELSE PageGoto(g)
  /\ UNCHANGED <<registry_vars, xdist, calls, lane_vars, dom>>

(* Variant that returns the first matching element only.                   *)
find_elements_collect_first ==
  /\ page.pc = "collect"
  /\ PageLeave(page, "return",
       SubSeq(AllElems(dom, page.locators[page.i]), 1, 1))
  /\ UNCHANGED <<registry_vars, xdist, calls, lane_vars, dom>>

(* return self.driver.find_elements for loc: the elements matching now.  *)
find_elements_collect ==
  /\ page.pc = "collect"
  /\ PageLeave(page, "return", AllElems(dom, page.locators[page.i]))
  /\ UNCHANGED <<registry_vars, xdist, calls, lane_vars, dom>>

(* element.click() inside the try of click_element.  The click returns,    *)
(* or it is dispatched and raises TimeoutException because the page load   *)
(* it started did not finish in time, or it raises another                 *)
(* WebDriverException without clicking.                                    *)
click_element_click ==
  /\ page.pc = "click"
  /\ \E outcome \in {"return", "TimeoutException", "WebDriverException"} :
       LET f == [page EXCEPT !.clicks = Append(@, page.element)]
       IN CASE outcome = "return" -> PageLeave(f, "return", <<>>)
            [] outcome = "TimeoutException" -> NextLocator(f)
            [] outcome = "WebDriverException" ->
                 PageLeave(page, "WebDriverException", <<>>)
  /\ UNCHANGED <<registry_vars, xdist, calls, lane_vars, dom>>

(* The page under test changes the matches of one locator: their number,   *)
(* and whether the first is hidden or displayed and enabled.               *)
dom_change ==
  /\ \E l \in Locators, n \in Matches, k \in BOOLEAN :
       /\ k => n > 0
       /\ dom' = [present |-> [dom.present EXCEPT ![l] = n],
                  visible |-> IF k THEN dom.visible \cup {l}
                              ELSE dom.visible \ {l},
                  clickable |-> IF k THEN dom.clickable \cup {l}
                                ELSE dom.clickable \ {l},
                  text |-> dom.text \ {l}]
  /\ dom' # dom
  /\ page' = [page EXCEPT !.never = @ \ CondTrue(page.op, dom'),
                          !.always = @ \cap CondTrue(page.op, dom')]
  /\ page_result' = NoPageRet
  /\ UNCHANGED <<registry_vars, xdist, calls, lane_vars>>

NextPage ==
  \/ \E op \in PageOps, locator \in LocatorArgs, timeout \in TimeoutArgs :
       page_call(op, locator, timeout)
  \/ wait_until_poll
  \/ find_elements_collect
  \/ click_element_click
  \/ dom_change

SpecPage == Init /\ [][NextPage]_vars

(* The page under test changes the one match of a locator: it appears or   *)
(* goes, is hidden or displayed, enabled or not, shows the text or not.    *)
dom_change_probe ==
  /\ \E l \in Locators, n \in {0, 1}, v \in BOOLEAN, k \in BOOLEAN, x \in BOOLEAN :
       /\ v => n > 0
       /\ k => v
       /\ x => v
       /\ dom' = [present |-> [dom.present EXCEPT ![l] = n],
                  visible |-> IF v THEN dom.visible \cup {l}
                              ELSE dom.visible \ {l},
                  clickable |-> IF k THEN dom.clickable \cup {l}
                                ELSE dom.clickable \ {l},
                  text |-> IF x THEN dom.text \cup {l} ELSE dom.text \ {l}]
  /\ dom' # dom
  /\ page' = [page EXCEPT !.never = @ \ CondTrue(page.op, dom'),
                          !.always = @ \cap CondTrue(page.op, dom')]
  /\ page_result' = NoPageRet
  /\ UNCHANGED <<registry_vars, xdist, calls, lane_vars>>

NextProbes ==
  \/ \E op \in ProbeOps, locator \in LocatorArgs, timeout \in TimeoutArgs :
       page_call(op, locator, timeout)
  \/ wait_until_poll
  \/ dom_change_probe

SpecProbes == Init /\ [][NextProbes]_vars

(* ---------------------------------------------------------------------- *)
(* A lane waiting in find_element while the other lanes call the registry  *)
(* ---------------------------------------------------------------------- *)
(* The lane whose test body calls find_element.  A lane runs one call at a *)
(* time: it is inside a DriverManager call or inside a BasePage call,      *)
(* never both.                                                             *)
LaneA == CHOOSE t \in Threads : \A u \in Threads : t <= u

(* Variant in which the wait is started from inside get_mobile_driver,     *)
(* within the with block of the lock.                                      *)
find_element_call_in_lock ==
  /\ th[LaneA].pc = "gmd_store"
  /\ page_call("find_element", [tuple |-> TRUE, one |-> "A", list |-> <<>>],
               <<10>>)

(* The test body of the lane calls find_element on the page of the session *)
(* it got from the registry; the locator has no match on the page.         *)
find_element_call ==
  /\ th[LaneA].pc = "idle"
  /\ StoredHandle(get_worker_key(LaneA, None)) # 0
  /\ page_call("find_element", [tuple |-> TRUE, one |-> "A", list |-> <<>>],
               <<10>>)

(* The registry calls of all lanes and the wait of LaneA: while LaneA is   *)
(* inside find_element it starts no call of the registry.  Nothing makes    *)
(* the wait go on, the scheduler keeps running the threads that are inside *)
(* a registry call.                                                        *)
NotWaiting(t) == t = LaneA => page.pc = "idle"

NextWait ==
  \/ \E t \in Threads :
       NotWaiting(t) /\ get_mobile_driver_call(t) /\ NoArguments(t)
  \/ \E t \in Threads :
       NotWaiting(t) /\ quit_driver_call(t) /\ NoArguments(t)
  \/ \E t \in Threads : NotWaiting(t) /\ quit_all_drivers_call(t)
  \/ \E t \in Threads : NotWaiting(t) /\ get_active_workers_call(t)
  \/ \E t \in Threads : Continue(t)
  \/ find_element_call
  \/ wait_until_poll

SpecWait ==
  Init /\ [][NextWait]_vars /\ WF_vars(\E t \in Threads : Continue(t))

(* ---------------------------------------------------------------------- *)
(* Vocabulary of the properties                                            *)
(* ---------------------------------------------------------------------- *)
Handles == 1..Len(sessions)

(* The step ends the call op of thread t.                                  *)
Returns(t, op) ==
  /\ th[t].pc # "idle"
  /\ th[t].op = op
  /\ th'[t].pc = "idle"

OthersIdle(t) == \A u \in Threads \ {t} : th[u].pc = "idle"

(* ---------------------------------------------------------------------- *)
(* C1: at most one browser session that has been constructed and not yet   *)
(* quit exists per worker key, in every reachable state.                   *)
(* ---------------------------------------------------------------------- *)
C1_OneLiveSessionPerKey ==
  \A k \in AllKeys : Cardinality(LiveFor(k)) <= 1

(* ---------------------------------------------------------------------- *)
(* C2: two get_mobile_driver(k) calls with no quit_driver(k) or            *)
(* quit_all_drivers between them return the identical session handle.      *)
(* A step that returns from get_mobile_driver(k) while the reuse window of *)
(* k is open (last_get[k] holds the previous return) is the second call.   *)
(* ---------------------------------------------------------------------- *)
SecondGetReturns(t) ==
  /\ Returns(t, "get_mobile_driver")
  /\ result'.kind = "return"
  /\ last_get[th[t].worker_key].gets > 0

(* C2 as stated: ... and the browser factory is invoked exactly once for k *)
(* across both calls.                                                      *)
C2_ReuseExactlyOneConstruction ==
  [][\A t \in Threads : SecondGetReturns(t) =>
       /\ result'.value = last_get[th[t].worker_key].handle
       /\ last_get[th[t].worker_key].invoked + th[t].invoked = 1]_vars

(* C2 as amended: the two calls return the identical session handle, the   *)
(* second call never invokes the browser factory, and the factory is       *)
(* invoked at most once for k across both calls (once when the first call  *)
(* found no entry, not at all when it reused one).                         *)
C2_IdempotentReuse ==
  [][\A t \in Threads : SecondGetReturns(t) =>
       /\ result'.value = last_get[th[t].worker_key].handle
       /\ th[t].invoked = 0
       /\ last_get[th[t].worker_key].invoked + th[t].invoked <= 1]_vars

C2_Witness ==
  /\ result.op = "get_mobile_driver"
  /\ result.kind = "return"
  /\ last_get[result.worker_key].gets = 2
  /\ last_get[result.worker_key].handle = result.value

(* ---------------------------------------------------------------------- *)
(* C3: for worker keys k1 # k2, get_mobile_driver(k1) and                  *)
(* get_mobile_driver(k2) return distinct session handles (a handle         *)
(* returned for k belongs to a session constructed for k, and no handle is *)
(* stored under two keys), and no step of quit_driver(k1) changes the      *)
(* handle or the configuration record stored for another key or quits a    *)
(* session constructed for another key.                                    *)
(* ---------------------------------------------------------------------- *)
QuitDriverStep(t) ==
  /\ th'[t] # th[t]
  /\ IF th[t].pc = "idle" THEN th'[t].op = "quit_driver" ELSE th[t].op = "quit_driver"

(* The key that the quit_driver call of thread t works on.                 *)
QuitDriverKey(t) ==
  IF th[t].pc = "idle" THEN th'[t].worker_key ELSE th[t].worker_key

(* The configuration record stored for k, as a sequence of length 0 or 1.  *)
ConfigIn(configs, k) ==
  IF DictHas(configs, k) THEN <<DictGet(configs, k)>> ELSE <<>>

ConfigOf(k) == ConfigIn(browser_configs, k)

C3_LaneIsolation ==
  [][/\ \A t \in Threads : QuitDriverStep(t) =>
          /\ DictPop(drivers', QuitDriverKey(t)) = DictPop(drivers, QuitDriverKey(t))
          /\ DictPop(browser_configs', QuitDriverKey(t))
               = DictPop(browser_configs, QuitDriverKey(t))
          /\ \A h \in Handles :
               sessions[h].key # QuitDriverKey(t) => sessions'[h] = sessions[h]
     /\ \A t \in Threads :
          Returns(t, "get_mobile_driver") /\ result'.kind = "return" =>
            sessions[result'.value].key = th[t].worker_key
     /\ \A i, j \in 1..Len(drivers') :
          i # j => drivers'[i][2] # drivers'[j][2]]_vars

C3_Witness ==
  \E k2 \in AllKeys :
    /\ result.op = "quit_driver"
    /\ k2 # result.worker_key
    /\ \E h \in Handles : sessions[h].key = result.worker_key /\ sessions[h].quits > 0
    /\ StoredHandle(k2) # 0
    /\ Live(StoredHandle(k2))
    /\ ConfigOf(k2) # <<>>

(* ---------------------------------------------------------------------- *)
(* C4: after quit_driver(k) returns, get_current_device(k) returns None.   *)
(* Stated at the step that returns from quit_driver(k) while no other      *)
(* thread is inside a call.                                                *)
(* ---------------------------------------------------------------------- *)
C4_PostReleaseCleanliness ==
  [][\A t \in Threads :
       Returns(t, "quit_driver") /\ OthersIdle(t) =>
         current_device(result.worker_key)' = None]_vars

(* ---------------------------------------------------------------------- *)
(* C5: after quit_all_drivers() returns, the registry holds no session     *)
(* handle and no configuration record for any worker key, and no exception *)
(* escapes.  Stated at the returning step while no other thread is inside  *)
(* a call.                                                                 *)
(* ---------------------------------------------------------------------- *)
C5_QuitAllLeavesNoEntry ==
  [][\A t \in Threads :
       Returns(t, "quit_all_drivers") /\ OthersIdle(t) =>
         /\ result'.kind = "return"
         /\ drivers' = <<>>
         /\ browser_configs' = <<>>]_vars

(* ---------------------------------------------------------------------- *)
(* C6: when get_mobile_driver(k) fails for a key k that had no entry, then *)
(* after the call raises neither the session map nor the configuration map *)
(* contains k, and get_current_device(k), get_current_browser(k) are None. *)
(* ---------------------------------------------------------------------- *)
C6_FailedGetLeavesNoEntry ==
  [][\A t \in Threads :
       /\ Returns(t, "get_mobile_driver")
       /\ result'.kind = "DriverException"
       /\ th[t].seen = 0
       => /\ result'.worker_key = th[t].worker_key
          /\ ~DictHas(drivers, result.worker_key)'
          /\ ~DictHas(browser_configs, result.worker_key)'
          /\ current_device(result.worker_key)' = None
          /\ current_browser(result.worker_key)' = None]_vars

(* ---------------------------------------------------------------------- *)
(* C7: once browser construction has failed inside get_mobile_driver, the  *)
(* call can only end by raising a DriverException whose details carry the  *)
(* resolved worker key, the requested device (the default device when none *)
(* was passed) and the underlying cause, and the call always has a next    *)
(* step until it has ended.                                                *)
(* ---------------------------------------------------------------------- *)
ConstructionFailed(t) ==
  /\ th[t].op = "get_mobile_driver"
  /\ th[t].pc # "idle"
  /\ th[t].exc # NoExc
  /\ th[t].exc[1] = "DriverException"

ThreadNext(t) ==
  \/ get_mobile_driver_raise(t)
  \/ cleanup_worker_check(t)
  \/ cleanup_worker_lookup(t)
  \/ cleanup_worker_quit(t)
  \/ cleanup_worker_pop_driver(t)
  \/ cleanup_worker_pop_config(t)

C7_ConstructionFailureRaises ==
  [][\A t \in Threads : ConstructionFailed(t) =>
       /\ ENABLED ThreadNext(t)
       /\ th'[t] # th[t] /\ th'[t].pc = "idle" =>
            /\ result'.kind = "DriverException"
            /\ result'.value.worker_id = get_worker_key(t, th[t].worker_id)
            /\ result'.value.device =
                 (IF th[t].device = None THEN DEFAULT_DEVICE ELSE th[t].device)
            /\ result'.value.error = th[t].exc
            /\ th[t].exc[3] \in {"launch failed", "timeout setup failed"}]_vars

C7_Witness ==
  /\ result.op = "get_mobile_driver"
  /\ result.kind = "DriverException"
  /\ result.value.error[1] = "DriverException"
  /\ result.value.device = DEFAULT_DEVICE
  /\ result.value.worker_id[1] # "worker"

(* ---------------------------------------------------------------------- *)
(* C8: every mutation of the session map and of the configuration map is   *)
(* performed while the mutating thread holds the global lock.              *)
(* ---------------------------------------------------------------------- *)
MutatingPcs == {"gmd_config", "gmd_store", "cw_pop_driver", "cw_pop_config"}

C8_MutationsHoldLock ==
  \A t \in Threads : th[t].pc \in MutatingPcs => lock = t

(* ---------------------------------------------------------------------- *)
(* C9: when an entry exists for key k, get_mobile_driver(k, device,        *)
(* browser) returns the existing session, constructs nothing and leaves    *)
(* the configuration record of k as it was.                                *)
(* ---------------------------------------------------------------------- *)
C9_ReuseIgnoresArguments ==
  [][\A t \in Threads :
       /\ th[t].op = "get_mobile_driver"
       /\ th[t].pc # "idle"
       /\ th[t].seen # 0
       /\ th'[t] # th[t]
       => /\ sessions' = sessions
          /\ ConfigIn(browser_configs', th[t].worker_key) = ConfigOf(th[t].worker_key)
          /\ th'[t].pc = "idle" =>
               /\ result'.kind = "return"
               /\ result'.value = th[t].seen]_vars

(* ---------------------------------------------------------------------- *)
(* C10: when quit_driver(k) finds an entry for k, quit() is called on that  *)
(* session and the call returns normally, whether quit() returned or       *)
(* raised, with both the session handle and the configuration record of k  *)
(* removed.  Stated at the returning step of a call that called quit().    *)
(* ---------------------------------------------------------------------- *)
C10_QuitDriverRemovesEntry ==
  [][\A t \in Threads :
       Returns(t, "quit_driver") /\ th[t].seen # 0 /\ th[t].handle # 0 =>
         /\ sessions[th[t].handle].quits > 0
         /\ result'.kind = "return"
         /\ result'.worker_key = th[t].worker_key
         /\ ~DictHas(drivers, result.worker_key)'
         /\ ~DictHas(browser_configs, result.worker_key)']_vars

(* ---------------------------------------------------------------------- *)
(* C11: in every state a caller can observe, get_current_device(k) and     *)
(* get_current_browser(k) return None whenever no session handle is stored *)
(* for k: a configuration record exists for a key only while a session     *)
(* handle is stored for that key.  Stated for the states in which no       *)
(* thread is inside a call.                                                *)
(* ---------------------------------------------------------------------- *)
AllIdle == \A t \in Threads : th[t].pc = "idle"

C11_LookupNoneWithoutSession ==
  /\ AllIdle
  /\ result.op \in {"get_current_device", "get_current_browser"}
  /\ ~DictHas(drivers, result.worker_key)
  => /\ result.value = None
     /\ ~DictHas(browser_configs, result.worker_key)

(* ---------------------------------------------------------------------- *)
(* C12: get_active_workers() returns a point-in-time snapshot: the mapping *)
(* returned lists exactly the keys that have a session handle at the       *)
(* instant of the copy, each with its configuration record.  Stated for a  *)
(* copy taken while no other thread is inside a call.                      *)
(* ---------------------------------------------------------------------- *)
C12_SnapshotOfLanesWithSession ==
  result.op = "get_active_workers" /\ AllIdle =>
    /\ result.value = browser_configs
    /\ DictKeySet(result.value) = DictKeySet(drivers)

(* ---------------------------------------------------------------------- *)
(* C13: worker key resolution follows a fixed priority: a supplied         *)
(* (non-empty) worker id determines the key; otherwise the runner worker   *)
(* id of the environment, if present, determines it; otherwise the thread  *)
(* identity does.  Keys produced by different paths never coincide.        *)
(* ---------------------------------------------------------------------- *)
PathKeys ==
  {<<"worker", w>> : w \in KeyIdArgs \ {None, ""}}
    \cup {<<"xdist", x>> : x \in KeyIdArgs \ {None, ""}}
    \cup {<<"thread", t>> : t \in Threads}

C13_KeyPriority ==
  /\ lanes.last # NoLast =>
       /\ lanes.last.worker_id \notin {None, ""} =>
            /\ lanes.last.path = "worker"
            /\ lanes.last.text
                 = <<"w", "o", "r", "k", "e", "r", "_">> \o StrText(lanes.last.worker_id)
       /\ lanes.last.worker_id \in {None, ""} /\ xdist # None =>
            /\ lanes.last.path = "xdist"
            /\ lanes.last.text = <<"x", "d", "i", "s", "t", "_">> \o StrText(xdist)
       /\ lanes.last.worker_id \in {None, ""} /\ xdist = None =>
            /\ lanes.last.path = "thread"
            /\ lanes.last.text
                 = <<"t", "h", "r", "e", "a", "d", "_">> \o IntText(lanes.last.thread)
  /\ \A k1, k2 \in PathKeys :
       k1[1] # k2[1] => worker_key_text(k1) # worker_key_text(k2)

C13_Witness ==
  /\ lanes.last.path = "xdist"
  /\ lanes.last.worker_id = ""
  /\ \E x \in lanes.first : x[3][1] = "w"

(* ---------------------------------------------------------------------- *)
(* C14: worker key stability: the same thread passing the same worker-id   *)
(* argument gets the same key from every call of _get_worker_key within    *)
(* one process lifetime.                                                   *)
(* ---------------------------------------------------------------------- *)
C14_KeyStable ==
  lanes.last # NoLast =>
    FirstText(lanes.last.thread, lanes.last.worker_id) = {lanes.last.text}

C14_Witness ==
  /\ lanes.last.repeated
  /\ lanes.last.worker_id = None
  /\ \E x \in lanes.first : x[3] # lanes.last.text
(* ---------------------------------------------------------------------- *)
(* Vocabulary of the locator properties                                    *)
(* ---------------------------------------------------------------------- *)
(* The wait on locator j of call f ran for its whole timeout: it stopped   *)
(* at the first poll interval that reached wait_time.                      *)
FullSlice(f, j) ==
  /\ f.slept[j] * PollInterval >= f.wait_time
  /\ f.slept[j] = 1 \/ (f.slept[j] - 1) * PollInterval < f.wait_time

Returned(op) == page_result.kind # "none" /\ page_result.call.op = op

(* ---------------------------------------------------------------------- *)
(* C15: locator fallback short-circuit: find_element evaluates the         *)
(* locators of a set strictly in list order and returns the match of the   *)
(* lowest-index locator whose presence wait succeeds; once one locator     *)
(* succeeds, no locator after it in the set is ever evaluated.             *)
(* ---------------------------------------------------------------------- *)
C15_ShortCircuit ==
  /\ page.op = "find_element" =>
       \A j \in 1..Len(page.locators) : page.polls[j] > 0 => j <= page.i
  /\ Returned("find_element") /\ page_result.kind = "return" =>
       LET f == page_result.call
       IN /\ f.matched[f.i]
          /\ dom.present[f.locators[f.i]] > 0
          /\ page_result.value = Elem(f.locators[f.i], 1)
          /\ \A j \in 1..Len(f.locators) :
               /\ j < f.i => f.polls[j] > 0 /\ ~f.matched[j]
               /\ j > f.i => f.polls[j] = 0

C15_Witness ==
  /\ Returned("find_element")
  /\ page_result.kind = "return"
  /\ Len(page_result.call.locators) = 2
  /\ page_result.call.i = 1
  /\ page_result.call.locators[1] # page_result.call.locators[2]
  /\ dom.present[page_result.call.locators[2]] > 0

(* ---------------------------------------------------------------------- *)
(* C16: locator fallback ordering: for a set [A, B] where A never matches  *)
(* and B matches, find_element returns the element matched by B, and B is  *)
(* first evaluated only after the wait of A has run for its full timeout:  *)
(* exactly one full timeout slice is consumed before the match is          *)
(* returned.                                                               *)
(* ---------------------------------------------------------------------- *)
C16_FallbackOrdering ==
  /\ page.op = "find_element" =>
       \A j \in 2..Len(page.locators) :
         page.polls[j] > 0 => FullSlice(page, j - 1)
  /\ Returned("find_element") =>
       LET f == page_result.call
       IN /\ Len(f.locators) = 2
          /\ f.locators[1] \in f.never
          /\ f.locators[2] \in f.always
          => /\ page_result.kind = "return"
             /\ page_result.value = Elem(f.locators[2], 1)
             /\ FullSlice(f, 1)
             /\ f.slept[2] = 0
             /\ f.polls[2] = 1

C16_Witness ==
  /\ Returned("find_element")
  /\ Len(page_result.call.locators) = 2
  /\ page_result.call.locators[1] \in page_result.call.never
  /\ page_result.call.locators[2] \in page_result.call.always
  /\ page_result.call.wait_time = EXPLICIT_WAIT
  /\ page_result.call.slept[1] > 1

(* ---------------------------------------------------------------------- *)
(* C17: all-fail case: find_element raises ElementNotFoundException only   *)
(* after every locator of the set has waited out its timeout, one slice    *)
(* per locator, and the error carries the full locator set in order and    *)
(* the timeout used.                                                       *)
(* ---------------------------------------------------------------------- *)
C17_AllFail ==
  /\ Returned("find_element")
  /\ page_result.kind = "ElementNotFoundException"
  /\ page_result.call.locators # <<>>
  => LET f == page_result.call
     IN /\ \A j \in 1..Len(f.locators) : FullSlice(f, j) /\ ~f.matched[j]
        /\ page_result.value.locator = f.locators
        /\ page_result.value.timeout = <<f.wait_time>>
        /\ f.wait_time = IF f.timeout = <<>> THEN DEFAULT_TIMEOUT
                         ELSE IF f.timeout = <<0>> THEN EXPLICIT_WAIT
                         ELSE f.timeout[1]

C17_Witness ==
  /\ Returned("find_element")
  /\ page_result.kind = "ElementNotFoundException"
  /\ Len(page_result.call.locators) = 2
  /\ page_result.call.locators[1] # page_result.call.locators[2]
  /\ page_result.call.timeout = <<10>>
  /\ page_result.call.slept[1] > 0
  /\ page_result.call.slept[2] > 0

(* ---------------------------------------------------------------------- *)
(* C18: empty locator set: find_element([], timeout) and                   *)
(* click_element([], timeout) raise ElementNotFoundException immediately,  *)
(* without any wait and without touching the browser session, for every    *)
(* timeout value.                                                          *)
(* ---------------------------------------------------------------------- *)
C18_EmptySet ==
  /\ page.pc # "idle" => page.locators # <<>>
  /\ \A op \in {"find_element", "click_element"} :
       Returned(op) /\ page_result.call.locators = <<>> =>
         /\ page_result.kind = "ElementNotFoundException"
         /\ page_result.value.locator = <<>>
         /\ page_result.call.polls = <<>>
         /\ page_result.call.slept = <<>>
         /\ page_result.call.clicks = <<>>
         /\ ~page_result.call.touched

C18_Witness ==
  /\ Returned("click_element")
  /\ page_result.kind = "ElementNotFoundException"
  /\ page_result.call.locators = <<>>
  /\ page_result.call.timeout = <<10>>
  /\ dom.clickable # {}

(* ---------------------------------------------------------------------- *)
(* C19: find_elements tries locators in list order and, at the first       *)
(* locator whose presence wait succeeds, returns all elements currently    *)
(* matching that locator and stops, without trying later locators even     *)
(* when that match list is empty; it returns an empty list, without        *)
(* raising, when the set is empty or every locator timed out.              *)
(* ---------------------------------------------------------------------- *)
C19_FindElements ==
  /\ page.op = "find_elements" =>
       \A j \in 1..Len(page.locators) : page.polls[j] > 0 => j <= page.i
  /\ Returned("find_elements") =>
       LET f == page_result.call
       IN /\ page_result.kind = "return"
          /\ IF \E j \in 1..Len(f.locators) : f.matched[j]
             THEN /\ f.matched[f.i]
                  /\ page_result.value = AllElems(dom, f.locators[f.i])
                  /\ \A j \in 1..Len(f.locators) :
                       /\ j < f.i => FullSlice(f, j) /\ ~f.matched[j]
                       /\ j > f.i => f.polls[j] = 0
             ELSE /\ page_result.value = <<>>
                  /\ \A j \in 1..Len(f.locators) : FullSlice(f, j)

C19_Witness ==
  /\ Returned("find_elements")
  /\ page_result.call.locators # <<>>
  /\ page_result.call.matched[page_result.call.i]
  /\ page_result.value = <<>>
  /\ page_result.call.i < Len(page_result.call.locators)
  /\ dom.present[page_result.call.locators[page_result.call.i + 1]] > 1

(* ---------------------------------------------------------------------- *)
(* C20: click_element follows the fallback, timeout and error contract of  *)
(* find_element with the wait condition clickable: on success exactly one  *)
(* click is performed, on the element of the lowest-index locator that     *)
(* became clickable, before the call returns; when the call raises         *)
(* ElementNotFoundException, every locator has timed out and no click was  *)
(* performed.                                                              *)
(* ---------------------------------------------------------------------- *)
C20_ClickContract ==
  Returned("click_element") /\ page_result.call.locators # <<>> =>
    LET f == page_result.call
        became == {j \in 1..Len(f.locators) : f.matched[j]}
    IN /\ page_result.kind = "return" =>
            /\ Len(f.clicks) = 1
            /\ \E j \in became :
                 /\ \A k \in became : j <= k
                 /\ f.clicks[1] = Elem(f.locators[j], 1)
       /\ page_result.kind = "ElementNotFoundException" =>
            /\ \A j \in 1..Len(f.locators) : FullSlice(f, j)
            /\ f.clicks = <<>>
(* ---------------------------------------------------------------------- *)
(* C21: the boolean probes is_element_present, is_element_visible,         *)
(* is_element_clickable, wait_for_element_to_disappear and wait_for_text   *)
(* never raise when their wait condition is not met: each tries the        *)
(* locators in list order, returns True as soon as one locator satisfies   *)
(* the condition within its own wait, and returns False when every locator *)
(* timed out or the set is empty.                                          *)
(* ---------------------------------------------------------------------- *)
BooleanProbes ==
  {"is_element_present", "is_element_visible", "is_element_clickable",
   "wait_for_element_to_disappear", "wait_for_text"}

C21_ProbesNeverRaise ==
  /\ page.op \in BooleanProbes =>
       \A j \in 1..Len(page.locators) : page.polls[j] > 0 => j <= page.i
  /\ \A op \in BooleanProbes :
       Returned(op) =>
         LET f == page_result.call
         IN /\ page_result.kind = "return"
            /\ IF \E j \in 1..Len(f.locators) : f.matched[j]
               THEN /\ page_result.value = TRUE
                    /\ f.matched[f.i]
                    /\ Cond(op, dom, f.locators[f.i])
                    /\ \A j \in 1..Len(f.locators) :
                         /\ j < f.i => FullSlice(f, j) /\ ~f.matched[j]
                         /\ j > f.i => f.polls[j] = 0
               ELSE /\ page_result.value = FALSE
                    /\ \A j \in 1..Len(f.locators) : FullSlice(f, j)

C21_Witness ==
  /\ Returned("wait_for_text")
  /\ page_result.value = FALSE
  /\ Len(page_result.call.locators) = 2
  /\ page_result.call.locators[1] # page_result.call.locators[2]
  /\ page_result.call.locators[1] \in dom.text

(* ---------------------------------------------------------------------- *)
(* C22: every wait of find_element, find_elements, click_element and the   *)
(* boolean probes lasts at most the timeout the caller passed to the call, *)
(* for every caller-supplied timeout including 0: a locator is given up    *)
(* at the first poll that finds the timeout of the caller elapsed.         *)
(* ---------------------------------------------------------------------- *)
WithinCallerTimeout(f) ==
  f.timeout # <<>> =>
    \A j \in 1..Len(f.locators) :
      f.slept[j] <= 1 \/ (f.slept[j] - 1) * PollInterval < f.timeout[1]

C22_WaitAtMostCallerTimeout ==
  /\ page.pc # "idle" => WithinCallerTimeout(page)
  /\ page_result.kind # "none" => WithinCallerTimeout(page_result.call)

(* ---------------------------------------------------------------------- *)
(* C23: a lane blocked in a locator wait does not hold the registry lock   *)
(* and does not block another lane: while lane A waits on the page of its  *)
(* own session, the get_mobile_driver, quit_driver and quit_all_drivers     *)
(* calls of the other lanes can start (the lock is free whenever no        *)
(* registry call is in progress) and every such call in progress           *)
(* completes, even if lane A never leaves its wait.                        *)
(* ---------------------------------------------------------------------- *)
C23_WaitDoesNotBlock ==
  /\ [](page.pc # "idle" => lock # LaneA /\ th[LaneA].pc = "idle")
  /\ [](page.pc # "idle" /\ AllIdle => lock = 0)
  /\ (\E t \in Threads : th[t].pc # "idle") ~> AllIdle

C23_Witness ==
  /\ page.pc = "wait"
  /\ AllIdle
  /\ calls >= page.since + 2
  /\ result.op = "quit_driver"
  /\ result.kind = "return"
  /\ result.worker_key # get_worker_key(LaneA, None)
  /\ StoredHandle(get_worker_key(LaneA, None)) # 0

(* ---------------------------------------------------------------------- *)
(* C24: is_element_not_present returns True if and only if no locator of   *)
(* the set finds an element by the end of the check: if any locator of the *)
(* set still matches a present, visible element, the result is False.      *)
(* ---------------------------------------------------------------------- *)
C24_NotPresentIffNoneMatches ==
  Returned("is_element_not_present") =>
    /\ page_result.kind = "return"
    /\ page_result.value
         = (\A j \in 1..Len(page_result.call.locators) :
              page_result.call.locators[j] \notin dom.visible)

(* ---------------------------------------------------------------------- *)
(* C25: the per-test driver fixture obtains the session of the current     *)
(* lane from the registry before the test body runs and releases it with   *)
(* quit_driver after the test body finished, passed or failed, so that no  *)
(* entry of that lane remains once the teardown has completed.  Stated for *)
(* the setup: every setup of the fixture reaches its yield.                *)
(* ---------------------------------------------------------------------- *)
C25_FixtureObtainsSession == \A e \in lanes.fixture : e[2] = "yield"

(* ---------------------------------------------------------------------- *)
(* C26: no leaked session: every browser session that has been constructed *)
(* and not yet quit is stored in the session map under its worker key, so  *)
(* that a later quit_all_drivers closes it, and an entry is never removed  *)
(* from the map without quit() having been called on the session it held.  *)
(* Stated for the states in which no thread is inside a call.              *)
(* ---------------------------------------------------------------------- *)
C26_NoLeakedSession ==
  AllIdle =>
    \A h \in Handles : Live(h) => StoredHandle(sessions[h].key) = h

(* ---------------------------------------------------------------------- *)
(* C27: each browser session is quit at most once: quit() is never invoked *)
(* twice on the same session handle.                                       *)
(* ---------------------------------------------------------------------- *)
C27_QuitAtMostOnce == \A h \in Handles : sessions[h].quits <= 1

(* ---------------------------------------------------------------------- *)
(* C28: get_mobile_driver never hands out a dead session: the handle       *)
(* returned by get_mobile_driver(k) is, at the moment of return, a session *)
(* that has not been quit and that is the one stored under k.              *)
(* ---------------------------------------------------------------------- *)
C28_ReturnsLiveStoredSession ==
  result.op = "get_mobile_driver" /\ result.kind = "return" =>
    /\ StoredHandle(result.worker_key) = result.value
    /\ Live(result.value)

(* ---------------------------------------------------------------------- *)
(* C29: no registry operation deadlocks: every call of get_mobile_driver,  *)
(* quit_driver, quit_all_drivers and get_active_workers eventually         *)
(* returns, and the lock is free whenever no call is in progress, also     *)
(* after a call ended by raising DriverException.                          *)
(* ---------------------------------------------------------------------- *)
C29_NoDeadlock ==
  /\ [](AllIdle => lock = 0)
  /\ (\E t \in Threads : th[t].pc # "idle") ~> AllIdle

C29_Witness ==
  /\ AllIdle
  /\ result.kind = "DriverException"
  /\ lock = 0
  /\ calls > 1

(* ---------------------------------------------------------------------- *)
(* C30: release is idempotent: quit_driver(k) on a key with no entry       *)
(* returns normally, calls quit() on nothing and leaves the whole registry *)
(* unchanged; and the entry that a quit_driver(k) found is no longer       *)
(* stored when it returns, so that a second quit_driver(k) is such a call. *)
(* ---------------------------------------------------------------------- *)
C30_ReleaseIdempotent ==
  [][\A t \in Threads :
       th[t].op = "quit_driver" /\ th'[t] # th[t] =>
         /\ th[t].seen = 0 /\ th'[t].seen = 0 =>
              /\ UNCHANGED <<drivers, browser_configs, sessions, lock>>
              /\ th'[t].pc = "idle" => result'.kind = "return"
         /\ th[t].seen # 0 /\ th'[t].pc = "idle" =>
              /\ result'.kind = "return"
              /\ ~DictHas(drivers', th[t].worker_key)
                   \/ DictGet(drivers', th[t].worker_key) # th[t].seen]_vars

C30_Witness ==
  /\ result.op = "quit_driver"
  /\ result.kind = "return"
  /\ ~DictHas(drivers, result.worker_key)
  /\ DictHas(browser_configs, result.worker_key)
  /\ drivers # <<>>
====
